---- MODULE Spec2Model ----
(***************************************************************************)
(* Model of src/src/local-conditional-card.ts (LocalConditionalCard): the  *)
(* visibility state (show / visible / preview), the coalescing of          *)
(* broadcast signals onto animation frames, the persisted state, the       *)
(* wrapped-card cache, and the deferred (microtask) steps of setConfig.    *)
(*                                                                         *)
(* Scheduling follows the browser's event loop: a macrotask (a block of    *)
(* synchronous host calls, a frame callback, the completion of the helper  *)
(* load) runs, then the microtask queue mq drains in FIFO order before the *)
(* next macrotask.  An `await` ends a step and re-enqueues the             *)
(* continuation at the back of mq.                                         *)
(***************************************************************************)
EXTENDS Integers, Sequences, FiniteSets, TLC

VARIABLES
    config,         \* this.config (NoConfig: undefined)
    show,           \* this.show: the explicit, persisted boolean
    visible,        \* this.visible: the computed boolean the template reads
    preview,        \* this.preview
    hass,           \* this._hass (0: undefined)
    card,           \* this.card: index into insts (0: undefined)
    cardCache,      \* this.cardCache: key -> index into insts (0: no entry)
    cardHelpers,    \* this.cardHelpers: loaded or not
    pendingEvent,   \* this._pendingEvent
    lastEvent,      \* this._lastEvent (NoSig: null)
    insts,          \* every element created so far; identity = position
    subscribed,     \* entries of the handler in document's listener list
    raf,            \* number of frame callbacks requested and not yet run
    storage,        \* localStorage: id -> "none" | "true" | "false"
    storageOK,      \* FALSE: localStorage throws on every access
    loader,         \* window.loadCardHelpers: "ok" | "absent"
    mq,             \* microtask queue
    waiting,        \* continuations awaiting the helper load
    updatePending,  \* Lit: an update is requested and not yet performed
    changedRel,     \* Lit: the pending changedProperties has show/preview/config
    updEnabled,     \* Lit: the element was connected at least once
    inHost,         \* a block of synchronous host calls is running
    budget,         \* host calls the behaviour may still make
    notified,       \* number of card-visibility-changed events dispatched
    firstCall,      \* the first host call: "setConfig", "other", "" (none yet)
    sigFx,          \* "show": show was last assigned by a delivered signal that
                    \* changed it; "both": that delivery changed visible too;
                    \* "none": otherwise
    hist,           \* log kept for the properties: signals received and
                    \* frame boundaries, attach and detach calls, or the
                    \* handles the host assigned
    last            \* what the last step did

vars == <<config, show, visible, preview, hass, card, cardCache, cardHelpers,
          pendingEvent, lastEvent, insts, subscribed, raf, storage, storageOK,
          loader, mq, waiting, updatePending, changedRel, updEnabled, inHost,
          budget, notified, firstCall, sigFx, hist, last>>

----------------------------------------------------------------------------
(* Bounds *)

\* host calls in one behaviour
MaxOps == 5

----------------------------------------------------------------------------
(* Values *)

Ids == {"a", "b"}

\* imported from ./const: the three action words
SHOW == "show"
HIDE_ == "hide"
TOGGLE == "toggle"

NoCard == [type |-> "", opt |-> "", circ |-> FALSE]
NoConfig == [set |-> FALSE, id |-> "", default |-> "", card |-> NoCard,
             persist_state |-> FALSE, hide_in_preview |-> FALSE]
NoSig == [shape |-> "null", ids |-> <<>>, action |-> ""]

\* a widget spec: its type, one optional field (absent, undefined or "1"),
\* and whether it holds a circular reference
Cfg(id, d, c, p, h) ==
    [set |-> TRUE, id |-> id, default |-> d, card |-> c,
     persist_state |-> p, hide_in_preview |-> h]
CardSpec(t, o, c) == [type |-> t, opt |-> o, circ |-> c]

\* entries of a payload's ids array: a plain id, or a mapping {k: v}
IdStr(k) == [t |-> "str", k |-> k, v |-> ""]
IdMap(k, v) == [t |-> "map", k |-> k, v |-> v]
Sig(ids, action) == [shape |-> "ok", ids |-> ids, action |-> action]
BadSig(shape) == [shape |-> shape, ids |-> <<>>, action |-> ""]

\* a deferred step: its kind, the widget spec or the configuration id it
\* closed over, the element it carries, and for a rebuild the element that
\* asked for it
Task(t, spec, id, el) ==
    [t |-> t, spec |-> spec, id |-> id, el |-> el, from |-> 0]
RebuildTask(t, spec, el, from) ==
    [t |-> t, spec |-> spec, id |-> "", el |-> el, from |-> from]
UpdateTask == Task("update", NoCard, "", 0)
WriteTask == Task("write", NoCard, "", 0)

Last(op, recon, emit, sig, res) ==
    [op |-> op, recon |-> recon, emit |-> emit, sig |-> sig, res |-> res]

----------------------------------------------------------------------------
(* Pure functions *)

\* `${this.show}`
BoolStr(b) == IF b THEN "true" ELSE "false"

\* a variant that forgets the error card
VisibilityNoErrorCard(p, cfg, s, c, is) ==
    \/ p /\ ~(cfg.set /\ cfg.hide_in_preview)
    \/ s

\* _computeVisibility (lines 160-169), on the values the caller sees
_computeVisibility(p, cfg, s, c, is) ==
    \/ p /\ ~(cfg.set /\ cfg.hide_in_preview)
    \/ s
    \/ c # 0 /\ is[c].kind = "hui-error-card"

\* a variant whose key is the type alone
KeyTypeOnly(spec) == <<spec.type>>

\* _cardConfigKey (lines 222-230): JSON.stringify drops an undefined field; it throws on a
\* circular spec, and the key is then the type alone
_cardConfigKey(spec) ==
    IF spec.circ THEN <<spec.type>>
    ELSE <<"json", spec.type, IF spec.opt = "1" THEN "1" ELSE "">>

\* _getStorageKey: the key is decided by the id
_getStorageKey(cfg) == cfg.id

\* the decode of _processQueuedLovelaceEvent: the word the switch receives
FoundAt(ids, cfg) ==
    {i \in 1..Len(ids) : ids[i].t = "map" /\ cfg.set /\ ids[i].k = cfg.id}

\* ids.includes(id): only a plain string entry can equal the id
Includes(ids, cfg) ==
    cfg.set /\ \E i \in 1..Len(ids) : ids[i].t = "str" /\ ids[i].k = cfg.id

\* a variant that applies a plain action whatever ids holds
DecodeAnyIds(sig, cfg) ==
    IF sig.action = "set"
    THEN IF FoundAt(sig.ids, cfg) # {}
         THEN sig.ids[CHOOSE i \in FoundAt(sig.ids, cfg) :
                         \A j \in FoundAt(sig.ids, cfg) : i <= j].v
         ELSE sig.action
    ELSE sig.action

\* lines 299-309
DecodeAction(sig, cfg) ==
    IF sig.action = "set"
    THEN IF FoundAt(sig.ids, cfg) # {}
         THEN sig.ids[CHOOSE i \in FoundAt(sig.ids, cfg) :
                         \A j \in FoundAt(sig.ids, cfg) : i <= j].v
         ELSE sig.action
    ELSE IF Includes(sig.ids, cfg) THEN sig.action ELSE "none"

\* the switch of _processQueuedLovelaceEvent
ApplyAction(action, s) ==
    CASE action = SHOW -> TRUE
      [] action = HIDE_ -> FALSE
      [] action = TOGGLE -> ~s
      [] OTHER -> s

\* getCardSize: b is what the wrapped card's own getCardSize does
\* (NoMethod: it has none, Throws, or the number it returns)
NoMethod == -2
Throws == -1
\* a variant that looks at the wrapped card before the visibility
SizeCardFirst(p, cfg, s, c, is, b) ==
    IF c = 0 THEN 1
    ELSE IF ~_computeVisibility(p, cfg, s, c, is) THEN 0
    ELSE IF b = NoMethod \/ b = Throws THEN 1
    ELSE b

getCardSize(p, cfg, s, c, is, b) ==
    IF ~_computeVisibility(p, cfg, s, c, is) THEN 0
    ELSE IF c = 0 THEN 1
    ELSE IF b = NoMethod \/ b = Throws THEN 1
    ELSE b

----------------------------------------------------------------------------
(* Steps shared by the handlers *)

\* Lit's requestUpdate: enqueue one update unless one is pending; the first
\* update waits for the first connectedCallback
RequestUpdate(q, pend, req) ==
    IF req /\ ~pend /\ updEnabled THEN Append(q, UpdateTask) ELSE q

\* a variant that notifies on every call
ComputeAlwaysNotify(q, pend, s, c, is, cfg) ==
    LET nv == _computeVisibility(preview, cfg, s, c, is)
        ch == nv # visible
        q1 == RequestUpdate(q, pend, ch)
        q2 == IF ch /\ cfg.set /\ cfg.persist_state
              THEN Append(q1, WriteTask) ELSE q1
    IN  [visible |-> nv, mq |-> q2, pend |-> pend \/ ch, emit |-> 1]

\* _computeAndSetVisible (lines 141-158), called with queue q, pending flag pend, and the
\* values of show, card, insts and config the handler has set so far
_computeAndSetVisible(q, pend, s, c, is, cfg) ==
    LET nv == _computeVisibility(preview, cfg, s, c, is)
        ch == nv # visible
        q1 == RequestUpdate(q, pend, ch)
        q2 == IF ch /\ cfg.set /\ cfg.persist_state
              THEN Append(q1, WriteTask) ELSE q1
    IN  [visible |-> nv, mq |-> q2, pend |-> pend \/ ch,
         emit |-> IF ch THEN 1 ELSE 0]

HostCan == budget > 0 /\ (inHost \/ mq = <<>>)

----------------------------------------------------------------------------
(* Host calls.  Each leaves hist to the specification that uses it. *)

\* setConfig: the synchronous part (lines 65-104); c = NoConfig is a missing
\* configuration object, c.card = NoCard a configuration without a card
setConfig(c) ==
    /\ HostCan
    /\ inHost' = TRUE
    /\ budget' = budget - 1
    /\ UNCHANGED <<visible, preview, hass, card, cardCache, cardHelpers,
                   pendingEvent, lastEvent, insts, subscribed, raf, storage,
                   storageOK, loader, waiting, updEnabled>>
    /\ IF ~c.set
       THEN /\ UNCHANGED <<config, show, mq, updatePending, changedRel>>
            /\ last' = Last("setConfig", FALSE, 0, NoSig, -1)
       ELSE LET q1 == RequestUpdate(mq, updatePending, TRUE)
                q2 == Append(q1, Task("create", c.card, "", 0))
                q3 == IF c.persist_state
                      THEN Append(q2, Task("restore", NoCard, c.id, 0))
                      ELSE q2
            IN  /\ config' = c
                /\ show' = (c.default = "show")
                /\ updatePending' = TRUE
                /\ changedRel' = TRUE
                /\ IF c.card = NoCard
                   THEN /\ mq' = q1
                        /\ last' = Last("setConfig", FALSE, 0, NoSig, -1)
                   ELSE /\ mq' = q3
                        /\ last' = Last("setConfig", FALSE, 0, NoSig, 0)
    /\ notified' = notified + last'.emit
    /\ firstCall' = IF firstCall # "" \/ budget' = budget THEN firstCall
                    ELSE IF last'.op = "setConfig" THEN "setConfig"
                    ELSE "other"
    /\ sigFx' = IF c.set THEN "none" ELSE sigFx

\* set hass (lines 112-118); h = 0 is a falsy handle
setHass(h) ==
    /\ HostCan
    /\ inHost' = TRUE
    /\ budget' = budget - 1
    /\ last' = Last("hass", FALSE, 0, NoSig, 0)
    /\ UNCHANGED <<config, show, visible, preview, card, cardCache,
                   cardHelpers, pendingEvent, lastEvent, subscribed, raf,
                   storage, storageOK, loader, waiting, changedRel,
                   updEnabled>>
    /\ IF ~config.set \/ h = 0
       THEN UNCHANGED <<hass, insts, mq, updatePending>>
       ELSE /\ hass' = h
            /\ mq' = RequestUpdate(mq, updatePending, h # hass)
            /\ updatePending' = (updatePending \/ h # hass)
            /\ insts' = IF card = 0 THEN insts
                        ELSE [insts EXCEPT ![card].hass = h]
    /\ notified' = notified + last'.emit
    /\ firstCall' = IF firstCall # "" \/ budget' = budget THEN firstCall
                    ELSE IF last'.op = "setConfig" THEN "setConfig"
                    ELSE "other"
    /\ sigFx' = sigFx

\* the host sets the preview property (line 38)
setPreview(b) ==
    /\ HostCan
    /\ inHost' = TRUE
    /\ budget' = budget - 1
    /\ last' = Last("preview", FALSE, 0, NoSig, 0)
    /\ preview' = b
    /\ mq' = RequestUpdate(mq, updatePending, b # preview)
    /\ updatePending' = (updatePending \/ b # preview)
    /\ changedRel' = (changedRel \/ b # preview)
    /\ UNCHANGED <<config, show, visible, hass, card, cardCache, cardHelpers,
                   pendingEvent, lastEvent, insts, subscribed, raf, storage,
                   storageOK, loader, waiting, updEnabled>>
    /\ notified' = notified + last'.emit
    /\ firstCall' = IF firstCall # "" \/ budget' = budget THEN firstCall
                    ELSE IF last'.op = "setConfig" THEN "setConfig"
                    ELSE "other"
    /\ sigFx' = sigFx

\* a variant for a handler bound anew at every call: each call adds an entry
AddFreshListener(n) == n + 1

\* document.addEventListener (line 175) with the one handler bound in the
\* constructor (line 59): a listener already in the list is not added again
addEventListener(n) == IF n = 0 THEN 1 ELSE n

\* document.removeEventListener (line 180) with the same handler
removeEventListener(n) == IF n = 0 THEN 0 ELSE n - 1

\* connectedCallback (lines 173-176); Lit starts updating at the first one
connectedCallback ==
    /\ HostCan
    /\ inHost' = TRUE
    /\ budget' = budget - 1
    /\ last' = Last("connect", FALSE, 0, NoSig, 0)
    /\ subscribed' = addEventListener(subscribed)
    /\ updEnabled' = TRUE
    /\ mq' = IF ~updEnabled /\ updatePending THEN Append(mq, UpdateTask)
             ELSE mq
    /\ UNCHANGED <<config, show, visible, preview, hass, card, cardCache,
                   cardHelpers, pendingEvent, lastEvent, insts, raf, storage,
                   storageOK, loader, waiting, updatePending, changedRel>>
    /\ notified' = notified + last'.emit
    /\ firstCall' = IF firstCall # "" \/ budget' = budget THEN firstCall
                    ELSE IF last'.op = "setConfig" THEN "setConfig"
                    ELSE "other"
    /\ sigFx' = sigFx

\* disconnectedCallback (lines 178-181)
disconnectedCallback ==
    /\ HostCan
    /\ inHost' = TRUE
    /\ budget' = budget - 1
    /\ last' = Last("disconnect", FALSE, 0, NoSig, 0)
    /\ subscribed' = removeEventListener(subscribed)
    /\ UNCHANGED <<config, show, visible, preview, hass, card, cardCache,
                   cardHelpers, pendingEvent, lastEvent, insts, raf, storage,
                   storageOK, loader, mq, waiting, updatePending, changedRel,
                   updEnabled>>
    /\ notified' = notified + last'.emit
    /\ firstCall' = IF firstCall # "" \/ budget' = budget THEN firstCall
                    ELSE IF last'.op = "setConfig" THEN "setConfig"
                    ELSE "other"
    /\ sigFx' = sigFx

\* a variant that keeps the first buffered signal of a frame
HandleKeepFirst(e) ==
    /\ lastEvent' = IF pendingEvent THEN lastEvent ELSE e
    /\ pendingEvent' = TRUE
    /\ raf' = IF pendingEvent THEN raf ELSE raf + 1

\* a variant that buffers the signal and never requests a frame
HandleNoRequest(e) ==
    /\ lastEvent' = e
    /\ pendingEvent' = TRUE
    /\ raf' = raf

\* a variant that requests a frame for every signal
HandleAlwaysRequest(e) ==
    /\ lastEvent' = e
    /\ pendingEvent' = TRUE
    /\ raf' = raf + 1

\* _handleLovelaceDomEvent (lines 277-283)
_handleLovelaceDomEvent(e) ==
    /\ lastEvent' = e
    /\ pendingEvent' = TRUE
    /\ raf' = IF pendingEvent THEN raf ELSE raf + 1

\* a signal is broadcast on document: the handler runs once per entry in the
\* listener list (last.res), and a second run with the same event changes
\* nothing more
Dispatch(e) ==
    /\ HostCan
    /\ inHost' = TRUE
    /\ budget' = budget - 1
    /\ IF subscribed > 0
       THEN _handleLovelaceDomEvent(e)
       ELSE UNCHANGED <<lastEvent, pendingEvent, raf>>
    /\ last' = Last("signal", FALSE, 0, e, subscribed)
    /\ UNCHANGED <<config, show, visible, preview, hass, card, cardCache,
                   cardHelpers, insts, subscribed, storage, storageOK, loader,
                   mq, waiting, updatePending, changedRel, updEnabled>>
    /\ notified' = notified + last'.emit
    /\ firstCall' = IF firstCall # "" \/ budget' = budget THEN firstCall
                    ELSE IF last'.op = "setConfig" THEN "setConfig"
                    ELSE "other"
    /\ sigFx' = sigFx

\* the host asks for the size (lines 195-209); the answer is last.res
GetCardSize(b) ==
    /\ HostCan
    /\ inHost' = TRUE
    /\ budget' = budget - 1
    /\ last' = Last("getCardSize", FALSE, 0, NoSig,
                    getCardSize(preview, config, show, card, insts, b))
    /\ UNCHANGED <<config, show, visible, preview, hass, card, cardCache,
                   cardHelpers, pendingEvent, lastEvent, insts, subscribed,
                   raf, storage, storageOK, loader, mq, waiting,
                   updatePending, changedRel, updEnabled>>
    /\ notified' = notified + last'.emit
    /\ firstCall' = IF firstCall # "" \/ budget' = budget THEN firstCall
                    ELSE IF last'.op = "setConfig" THEN "setConfig"
                    ELSE "other"
    /\ sigFx' = sigFx

----------------------------------------------------------------------------
(* Deferred steps: the head of the microtask queue runs *)

Head1 == Head(mq)
Rest == Tail(mq)

\* Lit's performUpdate: render reads this.visible (last.res), then updated
\* (lines 127-139) reconciles if show, preview or config changed
PerformUpdate ==
    /\ mq # <<>> /\ Head1.t = "update"
    /\ LET r == _computeAndSetVisible(Rest, FALSE, show, card, insts, config)
       IN  IF changedRel
           THEN /\ visible' = r.visible
                /\ mq' = r.mq
                /\ updatePending' = r.pend
                /\ last' = Last("update", TRUE, r.emit, NoSig,
                                IF visible THEN 1 ELSE 0)
           ELSE /\ mq' = Rest
                /\ updatePending' = FALSE
                /\ UNCHANGED visible
                /\ last' = Last("update", FALSE, 0, NoSig,
                                IF visible THEN 1 ELSE 0)
    /\ changedRel' = FALSE
    /\ inHost' = FALSE
    /\ UNCHANGED <<config, show, preview, hass, card, cardCache, cardHelpers,
                   pendingEvent, lastEvent, insts, subscribed, raf, storage,
                   storageOK, loader, waiting, updEnabled, budget>>
    /\ notified' = notified + last'.emit
    /\ firstCall' = IF firstCall # "" \/ budget' = budget THEN firstCall
                    ELSE IF last'.op = "setConfig" THEN "setConfig"
                    ELSE "other"
    /\ sigFx' = sigFx

\* the creation microtask starts (lines 79-80): _ensureHelpers (185-193)
\* returns at once, or awaits the helper load
CreateStart ==
    /\ mq # <<>> /\ Head1.t = "create"
    /\ LET k == Task("make", Head1.spec, "", 0)
       IN  IF cardHelpers = "none" /\ loader = "ok"
           THEN /\ waiting' = Append(waiting, k)
                /\ mq' = Rest
           ELSE /\ mq' = Append(Rest, k)
                /\ UNCHANGED waiting
    /\ inHost' = FALSE
    /\ last' = Last("create", FALSE, 0, NoSig, 0)
    /\ UNCHANGED <<config, show, visible, preview, hass, card, cardCache,
                   cardHelpers, pendingEvent, lastEvent, insts, subscribed,
                   raf, storage, storageOK, loader, updatePending, changedRel,
                   updEnabled, budget>>
    /\ notified' = notified + last'.emit
    /\ firstCall' = IF firstCall # "" \/ budget' = budget THEN firstCall
                    ELSE IF last'.op = "setConfig" THEN "setConfig"
                    ELSE "other"
    /\ sigFx' = sigFx

\* the helper load completes: every waiting continuation resumes
HelpersLoaded ==
    /\ mq = <<>> /\ waiting # <<>>
    /\ cardHelpers' = "loaded"
    /\ mq' = waiting
    /\ waiting' = <<>>
    /\ inHost' = FALSE
    /\ last' = Last("loaded", FALSE, 0, NoSig, 0)
    /\ UNCHANGED <<config, show, visible, preview, hass, card, cardCache,
                   pendingEvent, lastEvent, insts, subscribed, raf, storage,
                   storageOK, loader, updatePending, changedRel, updEnabled,
                   budget>>
    /\ notified' = notified + last'.emit
    /\ firstCall' = IF firstCall # "" \/ budget' = budget THEN firstCall
                    ELSE IF last'.op = "setConfig" THEN "setConfig"
                    ELSE "other"
    /\ sigFx' = sigFx

\* _createCard after its await (lines 234-272): the cached element, or a new
\* one of the kind the helpers give (a plain div without helpers)
NewInst(kind, spec) == [kind |-> kind, hass |-> hass, spec |-> spec]

_createCard(spec, kind) ==
    LET key == _cardConfigKey(spec)
    IN  IF cardCache[key] # 0
        THEN [el |-> cardCache[key], insts |-> insts, cache |-> cardCache]
        ELSE [el |-> Len(insts) + 1,
              insts |-> Append(insts, NewInst(kind, spec)),
              cache |-> [cardCache EXCEPT ![key] = Len(insts) + 1]]

Kinds == IF cardHelpers = "loaded" THEN {"hui-card", "hui-error-card"}
         ELSE {"div"}

CreateMake ==
    /\ mq # <<>> /\ Head1.t = "make"
    /\ \E kind \in Kinds :
         LET r == _createCard(Head1.spec, kind)
         IN  /\ insts' = r.insts
             /\ cardCache' = r.cache
             /\ mq' = Append(Rest, Task("assign", Head1.spec, "", r.el))
             /\ last' = Last("make", FALSE, 0, NoSig,
                             IF r.insts = insts THEN 0 ELSE 1)
    /\ inHost' = FALSE
    /\ UNCHANGED <<config, show, visible, preview, hass, card, cardHelpers,
                   pendingEvent, lastEvent, subscribed, raf, storage,
                   storageOK, loader, waiting, updatePending, changedRel,
                   updEnabled, budget>>
    /\ notified' = notified + last'.emit
    /\ firstCall' = IF firstCall # "" \/ budget' = budget THEN firstCall
                    ELSE IF last'.op = "setConfig" THEN "setConfig"
                    ELSE "other"
    /\ sigFx' = sigFx

\* createCard after its await (lines 213-219)
CreateAssign ==
    /\ mq # <<>> /\ Head1.t = "assign"
    /\ LET is == IF hass # 0 THEN [insts EXCEPT ![Head1.el].hass = hass]
                 ELSE insts
           r == _computeAndSetVisible(Append(Rest, Task("final", NoCard, "", 0)),
                                      updatePending, show, Head1.el, is, config)
       IN  /\ card' = Head1.el
           /\ insts' = is
           /\ visible' = r.visible
           /\ mq' = r.mq
           /\ updatePending' = r.pend
           /\ last' = Last("assign", TRUE, r.emit, NoSig, 0)
    /\ inHost' = FALSE
    /\ UNCHANGED <<config, show, preview, hass, cardCache, cardHelpers,
                   pendingEvent, lastEvent, subscribed, raf, storage,
                   storageOK, loader, waiting, changedRel, updEnabled, budget>>
    /\ notified' = notified + last'.emit
    /\ firstCall' = IF firstCall # "" \/ budget' = budget THEN firstCall
                    ELSE IF last'.op = "setConfig" THEN "setConfig"
                    ELSE "other"
    /\ sigFx' = sigFx

\* the creation microtask's last statement (line 83)
CreateFinal ==
    /\ mq # <<>> /\ Head1.t = "final"
    /\ LET r == _computeAndSetVisible(Rest, updatePending, show, card, insts,
                                      config)
       IN  /\ visible' = r.visible
           /\ mq' = r.mq
           /\ updatePending' = r.pend
           /\ last' = Last("final", TRUE, r.emit, NoSig, 0)
    /\ inHost' = FALSE
    /\ UNCHANGED <<config, show, preview, hass, card, cardCache, cardHelpers,
                   pendingEvent, lastEvent, insts, subscribed, raf, storage,
                   storageOK, loader, waiting, changedRel, updEnabled, budget>>
    /\ notified' = notified + last'.emit
    /\ firstCall' = IF firstCall # "" \/ budget' = budget THEN firstCall
                    ELSE IF last'.op = "setConfig" THEN "setConfig"
                    ELSE "other"
    /\ sigFx' = sigFx

\* the element i dispatches ll-rebuild: the listener of lines 251-265 queues
\* the rebuild microtask for the spec i was created for
Rebuild(i) ==
    /\ HostCan
    /\ i \in 1..Len(insts)
    /\ inHost' = TRUE
    /\ budget' = budget - 1
    /\ mq' = Append(mq, RebuildTask("rebuild", insts[i].spec, 0, i))
    /\ last' = Last("ll-rebuild", FALSE, 0, NoSig, i)
    /\ UNCHANGED <<config, show, visible, preview, hass, card, cardCache,
                   cardHelpers, pendingEvent, lastEvent, insts, subscribed,
                   raf, storage, storageOK, loader, waiting, updatePending,
                   changedRel, updEnabled>>
    /\ notified' = notified + last'.emit
    /\ firstCall' = IF firstCall # "" \/ budget' = budget THEN firstCall
                    ELSE IF last'.op = "setConfig" THEN "setConfig"
                    ELSE "other"
    /\ sigFx' = sigFx

\* the rebuild microtask starts (lines 254-255): _createCard runs up to the
\* await of _ensureHelpers (lines 233, 185-193)
RebuildStart ==
    /\ mq # <<>> /\ Head1.t = "rebuild"
    /\ LET k == RebuildTask("remake", Head1.spec, 0, Head1.from)
       IN  IF cardHelpers = "none" /\ loader = "ok"
           THEN /\ waiting' = Append(waiting, k)
                /\ mq' = Rest
           ELSE /\ mq' = Append(Rest, k)
                /\ UNCHANGED waiting
    /\ inHost' = FALSE
    /\ last' = Last("rebuild", FALSE, 0, NoSig, Head1.from)
    /\ UNCHANGED <<config, show, visible, preview, hass, card, cardCache,
                   cardHelpers, pendingEvent, lastEvent, insts, subscribed,
                   raf, storage, storageOK, loader, updatePending, changedRel,
                   updEnabled, budget>>
    /\ notified' = notified + last'.emit
    /\ firstCall' = IF firstCall # "" \/ budget' = budget THEN firstCall
                    ELSE IF last'.op = "setConfig" THEN "setConfig"
                    ELSE "other"
    /\ sigFx' = sigFx

\* _createCard after its await, called by the rebuild (lines 234-272)
RebuildMake ==
    /\ mq # <<>> /\ Head1.t = "remake"
    /\ \E kind \in Kinds :
         LET r == _createCard(Head1.spec, kind)
         IN  /\ insts' = r.insts
             /\ cardCache' = r.cache
             /\ mq' = Append(Rest, RebuildTask("reassign", Head1.spec, r.el,
                                               Head1.from))
             /\ last' = Last("remake", FALSE, 0, NoSig,
                             IF r.insts = insts THEN 0 ELSE 1)
    /\ inHost' = FALSE
    /\ UNCHANGED <<config, show, visible, preview, hass, card, cardHelpers,
                   pendingEvent, lastEvent, subscribed, raf, storage,
                   storageOK, loader, waiting, updatePending, changedRel,
                   updEnabled, budget>>
    /\ notified' = notified + last'.emit
    /\ firstCall' = IF firstCall # "" \/ budget' = budget THEN firstCall
                    ELSE IF last'.op = "setConfig" THEN "setConfig"
                    ELSE "other"
    /\ sigFx' = sigFx

\* the rest of the rebuild microtask (lines 256-263); last.res is the
\* element that asked for the rebuild
RebuildAssign ==
    /\ mq # <<>> /\ Head1.t = "reassign"
    /\ LET is == IF hass # 0 THEN [insts EXCEPT ![Head1.el].hass = hass]
                 ELSE insts
           r == _computeAndSetVisible(Rest, updatePending, show, Head1.el, is,
                                      config)
       IN  /\ cardCache' = [cardCache EXCEPT
                               ![_cardConfigKey(Head1.spec)] = Head1.el]
           /\ card' = Head1.el
           /\ insts' = is
           /\ visible' = r.visible
           /\ mq' = r.mq
           /\ updatePending' = r.pend
           /\ last' = Last("rebuilt", TRUE, r.emit, NoSig, Head1.from)
    /\ inHost' = FALSE
    /\ UNCHANGED <<config, show, preview, hass, cardHelpers, pendingEvent,
                   lastEvent, subscribed, raf, storage, storageOK, loader,
                   waiting, changedRel, updEnabled, budget>>
    /\ notified' = notified + last'.emit
    /\ firstCall' = IF firstCall # "" \/ budget' = budget THEN firstCall
                    ELSE IF last'.op = "setConfig" THEN "setConfig"
                    ELSE "other"
    /\ sigFx' = sigFx

\* a variant that reads the entry and never assigns it
RestoreNoOverride ==
    /\ mq # <<>> /\ Head1.t = "restore"
    /\ mq' = Rest
    /\ last' = Last("restore", FALSE, 0, NoSig, 0)
    /\ inHost' = FALSE
    /\ UNCHANGED <<config, show, visible, preview, hass, card, cardCache,
                   cardHelpers, pendingEvent, lastEvent, insts, subscribed,
                   raf, storage, storageOK, loader, waiting, updatePending,
                   changedRel, updEnabled, budget, notified, firstCall, sigFx>>

\* the restoration microtask (lines 88-102); Head1.id is the id of the
\* configuration that scheduled it
Restore ==
    /\ mq # <<>> /\ Head1.t = "restore"
    /\ LET lastSaved == storage[_getStorageKey(Head1)]
           parsed == (lastSaved = "true")
           q1 == RequestUpdate(Rest, updatePending, TRUE)
           r == _computeAndSetVisible(q1, TRUE, parsed, card, insts, config)
       IN  IF storageOK /\ lastSaved # "none" /\ parsed # show
           THEN /\ show' = parsed
                /\ changedRel' = TRUE
                /\ visible' = r.visible
                /\ mq' = r.mq
                /\ updatePending' = TRUE
                /\ last' = Last("restore", TRUE, r.emit, NoSig, 1)
           ELSE /\ mq' = Rest
                /\ UNCHANGED <<show, changedRel, visible, updatePending>>
                /\ last' = Last("restore", FALSE, 0, NoSig, 0)
    /\ inHost' = FALSE
    /\ UNCHANGED <<config, preview, hass, card, cardCache, cardHelpers,
                   pendingEvent, lastEvent, insts, subscribed, raf, storage,
                   storageOK, loader, waiting, updEnabled, budget>>
    /\ notified' = notified + last'.emit
    /\ firstCall' = IF firstCall # "" \/ budget' = budget THEN firstCall
                    ELSE IF last'.op = "setConfig" THEN "setConfig"
                    ELSE "other"
    /\ sigFx' = IF show' # show THEN "none" ELSE sigFx

\* a variant that stores the computed visibility
WriteVisible ==
    /\ mq # <<>> /\ Head1.t = "write"
    /\ mq' = Rest
    /\ storage' = IF storageOK
                  THEN [storage EXCEPT ![_getStorageKey(config)] = BoolStr(visible)]
                  ELSE storage
    /\ inHost' = FALSE
    /\ last' = Last("write", FALSE, 0, NoSig, IF storageOK THEN 1 ELSE 0)
    /\ UNCHANGED <<config, show, visible, preview, hass, card, cardCache,
                   cardHelpers, pendingEvent, lastEvent, insts, subscribed,
                   raf, storageOK, loader, waiting, updatePending, changedRel,
                   updEnabled, budget, notified, firstCall, sigFx>>

\* the write microtask (lines 147-153): the key and the value are read when
\* it runs
Write ==
    /\ mq # <<>> /\ Head1.t = "write"
    /\ mq' = Rest
    /\ storage' = IF storageOK
                  THEN [storage EXCEPT ![_getStorageKey(config)] = BoolStr(show)]
                  ELSE storage
    /\ inHost' = FALSE
    /\ last' = Last("write", FALSE, 0, NoSig, IF storageOK THEN 1 ELSE 0)
    /\ UNCHANGED <<config, show, visible, preview, hass, card, cardCache,
                   cardHelpers, pendingEvent, lastEvent, insts, subscribed,
                   raf, storageOK, loader, waiting, updatePending, changedRel,
                   updEnabled, budget>>
    /\ notified' = notified + last'.emit
    /\ firstCall' = IF firstCall # "" \/ budget' = budget THEN firstCall
                    ELSE IF last'.op = "setConfig" THEN "setConfig"
                    ELSE "other"
    /\ sigFx' = sigFx

\* a variant whose try block starts after the shape test
ShapeTestOutsideTry(sig) ==
    CASE sig.shape = "ok" -> "decode"
      [] sig.shape = "nodetail" -> "raised"
      [] OTHER -> "skip"

\* the shape test of lines 292-298: a payload without detail makes the `in`
\* operator throw inside the try ("caught"); a detail without the key, a key
\* without ids or action, or ids that is no array fail the test ("skip"),
\* as does the null buffer at line 289
ShapeTest(sig) ==
    CASE sig.shape = "ok" -> "decode"
      [] sig.shape = "nodetail" -> "caught"
      [] OTHER -> "skip"

\* _processQueuedLovelaceEvent (lines 285-332), run by the frame callback;
\* last.res = -1 when an error leaves the callback
_processQueuedLovelaceEvent ==
    /\ raf > 0 /\ mq = <<>>
    /\ raf' = raf - 1
    /\ pendingEvent' = FALSE
    /\ lastEvent' = NoSig
    /\ inHost' = FALSE
    /\ IF ShapeTest(lastEvent) = "decode"
       THEN LET s1 == ApplyAction(DecodeAction(lastEvent, config), show)
                q1 == RequestUpdate(mq, updatePending, s1 # show)
                r == _computeAndSetVisible(q1, updatePending \/ s1 # show,
                                           s1, card, insts, config)
            IN  /\ show' = s1
                /\ changedRel' = (changedRel \/ s1 # show)
                /\ visible' = r.visible
                /\ mq' = r.mq
                /\ updatePending' = r.pend
                /\ last' = Last("frame", TRUE, r.emit, lastEvent, 0)
       ELSE /\ UNCHANGED <<show, changedRel, visible, mq, updatePending>>
            /\ last' = Last("frame", FALSE, 0, lastEvent,
                            IF ShapeTest(lastEvent) = "raised" THEN -1 ELSE 0)
    /\ UNCHANGED <<config, preview, hass, card, cardCache, cardHelpers,
                   insts, subscribed, storage, storageOK, loader, waiting,
                   updEnabled, budget>>
    /\ notified' = notified + last'.emit
    /\ firstCall' = IF firstCall # "" \/ budget' = budget THEN firstCall
                    ELSE IF last'.op = "setConfig" THEN "setConfig"
                    ELSE "other"
    /\ sigFx' = IF show' = show THEN sigFx
                ELSE IF visible' # visible THEN "both" ELSE "show"

----------------------------------------------------------------------------
(* Initial states and specifications *)

AllSpecs == {CardSpec(t, o, c) : t \in {"x", "y"}, o \in {"", "undef", "1"},
                                 c \in BOOLEAN}
Keys == {_cardConfigKey(sp) : sp \in AllSpecs}

\* the state after construction (lines 37-61), in an environment with the
\* given storage contents, storage availability and helper loader
InitWith(storages, oks, loaders, ops) ==
    /\ config = NoConfig
    /\ show = TRUE
    /\ visible = FALSE
    /\ preview = FALSE
    /\ hass = 0
    /\ card = 0
    /\ cardCache = [k \in Keys |-> 0]
    /\ cardHelpers = "none"
    /\ pendingEvent = FALSE
    /\ lastEvent = NoSig
    /\ insts = <<>>
    /\ subscribed = 0
    /\ raf = 0
    /\ storage \in storages
    /\ storageOK \in oks
    /\ loader \in loaders
    /\ mq = <<>>
    /\ waiting = <<>>
    /\ updatePending = TRUE
    /\ changedRel = TRUE
    /\ updEnabled = FALSE
    /\ inHost = TRUE
    /\ budget = ops
    /\ notified = 0
    /\ firstCall = ""
    /\ sigFx = "none"
    /\ hist = <<>>
    /\ last = Last("init", FALSE, 0, NoSig, 0)

X == CardSpec("x", "", FALSE)

\* inputs of the general specification
Configs ==
    {Cfg("a", d, c, FALSE, h) : d \in {"show", "hide"}, c \in {X, NoCard},
                                h \in BOOLEAN} \cup {NoConfig}
PlainConfigs == {Cfg("a", d, X, FALSE, FALSE) : d \in {"show", "hide"}}
Signals ==
    {Sig(<<IdStr("a")>>, SHOW), Sig(<<IdStr("a")>>, HIDE_),
     Sig(<<IdStr("a")>>, TOGGLE), Sig(<<IdStr("b")>>, TOGGLE),
     Sig(<<IdMap("b", SHOW), IdMap("a", HIDE_)>>, "set")}

NoStored == {[i \in Ids |-> "none"]}
StoredA == {[i \in Ids |-> IF i = "a" THEN v ELSE "none"] :
                v \in {"none", "true", "false"}}

Init == InitWith(NoStored, {TRUE}, {"ok"}, MaxOps)

Next ==
    \/ \E c \in Configs : setConfig(c) /\ UNCHANGED hist
    \/ \E b \in BOOLEAN : setPreview(b) /\ UNCHANGED hist
    \/ connectedCallback /\ UNCHANGED hist
    \/ \E e \in Signals : Dispatch(e) /\ UNCHANGED hist
    \/ _processQueuedLovelaceEvent /\ UNCHANGED hist
    \/ PerformUpdate /\ UNCHANGED hist
    \/ CreateStart /\ UNCHANGED hist
    \/ HelpersLoaded /\ UNCHANGED hist
    \/ CreateMake /\ UNCHANGED hist
    \/ CreateAssign /\ UNCHANGED hist
    \/ CreateFinal /\ UNCHANGED hist

Spec == Init /\ [][Next]_vars

\* The signal specification: persistence disabled, one configuration,
\* show/hide/toggle signals targeted at its id, and a log of the signals
\* received and of the frame boundaries.
MaxSigOps == 5

SigSignals ==
    {Sig(<<IdStr("a")>>, SHOW), Sig(<<IdStr("a")>>, HIDE_),
     Sig(<<IdStr("a")>>, TOGGLE),
     Sig(<<IdStr("b"), IdMap("a", TOGGLE)>>, "set")}

InitSig == InitWith(NoStored, {TRUE}, {"ok"}, MaxSigOps)

LogSignal(e) == hist' = IF subscribed > 0 THEN Append(hist, e) ELSE hist
LogFrame == hist' = Append(hist, NoSig)

NextSig ==
    \/ \E c \in PlainConfigs : ~config.set /\ setConfig(c) /\ UNCHANGED hist
    \/ connectedCallback /\ UNCHANGED hist
    \/ \E e \in SigSignals : config.set /\ Dispatch(e) /\ LogSignal(e)
    \/ _processQueuedLovelaceEvent /\ LogFrame
    \/ PerformUpdate /\ UNCHANGED hist
    \/ CreateStart /\ UNCHANGED hist
    \/ HelpersLoaded /\ UNCHANGED hist
    \/ CreateMake /\ UNCHANGED hist
    \/ CreateAssign /\ UNCHANGED hist
    \/ CreateFinal /\ UNCHANGED hist

SpecSig == InitSig /\ [][NextSig]_vars

\* The decode specification: one id, no persistence, and signals of every
\* shape, targeted or not.
DecodeSignals ==
    {Sig(<<IdStr("a")>>, SHOW), Sig(<<IdStr("b"), IdStr("a")>>, TOGGLE),
     Sig(<<IdStr("b")>>, TOGGLE), Sig(<<IdMap("a", SHOW)>>, HIDE_),
     Sig(<<>>, SHOW),
     Sig(<<IdMap("b", SHOW), IdMap("a", HIDE_)>>, "set"),
     Sig(<<IdMap("a", TOGGLE), IdMap("a", HIDE_)>>, "set"),
     Sig(<<IdStr("a")>>, "set"), Sig(<<IdMap("b", TOGGLE)>>, "set"),
     Sig(<<IdMap("a", "set")>>, "set"), Sig(<<IdStr("a")>>, "other"),
     BadSig("nodetail"), BadSig("nokey"), BadSig("noids"),
     BadSig("noaction"), BadSig("notarray")}

InitDecode == InitWith(NoStored, {TRUE}, {"ok"}, MaxOps)

NextDecode ==
    \/ \E c \in PlainConfigs : setConfig(c) /\ UNCHANGED hist
    \/ connectedCallback /\ UNCHANGED hist
    \/ \E e \in DecodeSignals : Dispatch(e) /\ UNCHANGED hist
    \/ _processQueuedLovelaceEvent /\ UNCHANGED hist
    \/ PerformUpdate /\ UNCHANGED hist
    \/ CreateStart /\ UNCHANGED hist
    \/ HelpersLoaded /\ UNCHANGED hist
    \/ CreateMake /\ UNCHANGED hist
    \/ CreateAssign /\ UNCHANGED hist
    \/ CreateFinal /\ UNCHANGED hist

SpecDecode == InitDecode /\ [][NextDecode]_vars

\* The persistence specification: persist_state is set, the storage holds
\* any entry for the id and may refuse every access.
PersistConfigs == {Cfg("a", d, X, TRUE, h) : d \in {"show", "hide"},
                                             h \in BOOLEAN}
PersistSignals ==
    {Sig(<<IdStr("a")>>, SHOW), Sig(<<IdStr("a")>>, HIDE_),
     Sig(<<IdStr("a")>>, TOGGLE), Sig(<<IdStr("b")>>, TOGGLE)}

InitPersist == InitWith(StoredA, BOOLEAN, {"ok"}, MaxOps)

NextPersist ==
    \/ \E c \in PersistConfigs : setConfig(c) /\ UNCHANGED hist
    \/ \E b \in BOOLEAN : setPreview(b) /\ UNCHANGED hist
    \/ connectedCallback /\ UNCHANGED hist
    \/ \E e \in PersistSignals : Dispatch(e) /\ UNCHANGED hist
    \/ _processQueuedLovelaceEvent /\ UNCHANGED hist
    \/ PerformUpdate /\ UNCHANGED hist
    \/ CreateStart /\ UNCHANGED hist
    \/ HelpersLoaded /\ UNCHANGED hist
    \/ CreateMake /\ UNCHANGED hist
    \/ CreateAssign /\ UNCHANGED hist
    \/ CreateFinal /\ UNCHANGED hist
    \/ Restore /\ UNCHANGED hist
    \/ Write /\ UNCHANGED hist

SpecPersist == InitPersist /\ [][NextPersist]_vars

\* The size specification: the host asks for the size at any moment.
SizeConfigs == {Cfg("a", d, X, FALSE, h) : d \in {"show", "hide"},
                                           h \in BOOLEAN}
SizeSignals == {Sig(<<IdStr("a")>>, SHOW), Sig(<<IdStr("a")>>, HIDE_)}
Sizes == {NoMethod, Throws, 0, 3}

NextSize ==
    \/ \E c \in SizeConfigs : setConfig(c) /\ UNCHANGED hist
    \/ \E b \in BOOLEAN : setPreview(b) /\ UNCHANGED hist
    \/ connectedCallback /\ UNCHANGED hist
    \/ \E e \in SizeSignals : Dispatch(e) /\ UNCHANGED hist
    \/ \E b \in Sizes : GetCardSize(b) /\ UNCHANGED hist
    \/ _processQueuedLovelaceEvent /\ UNCHANGED hist
    \/ PerformUpdate /\ UNCHANGED hist
    \/ CreateStart /\ UNCHANGED hist
    \/ HelpersLoaded /\ UNCHANGED hist
    \/ CreateMake /\ UNCHANGED hist
    \/ CreateAssign /\ UNCHANGED hist
    \/ CreateFinal /\ UNCHANGED hist

SpecSize == InitDecode /\ [][NextSize]_vars

\* The cache specification: configure calls with several widget specs, each
\* made after the deferred steps of the previous one have run, with or
\* without the card helpers.
CacheSpecs ==
    {X, CardSpec("x", "undef", FALSE), CardSpec("x", "1", FALSE),
     CardSpec("y", "", FALSE), CardSpec("x", "", TRUE),
     CardSpec("x", "1", TRUE)}
CacheConfigs == {Cfg("a", "show", sp, FALSE, FALSE) : sp \in CacheSpecs}

InitCache == InitWith(NoStored, {TRUE}, {"ok", "absent"}, MaxOps)

NextCache ==
    \/ \E c \in CacheConfigs :
          mq = <<>> /\ waiting = <<>> /\ setConfig(c) /\ UNCHANGED hist
    \/ connectedCallback /\ UNCHANGED hist
    \/ PerformUpdate /\ UNCHANGED hist
    \/ CreateStart /\ UNCHANGED hist
    \/ HelpersLoaded /\ UNCHANGED hist
    \/ CreateMake /\ UNCHANGED hist
    \/ CreateAssign /\ UNCHANGED hist
    \/ CreateFinal /\ UNCHANGED hist

SpecCache == InitCache /\ [][NextCache]_vars

\* The attachment specification: attach and detach calls in any order
\* around signals, with a log of the attach and detach calls, of the signals
\* received and of the frame boundaries.
AttachConfigs == {Cfg("a", "hide", X, FALSE, FALSE)}
AttachSignals == {Sig(<<IdStr("a")>>, SHOW), Sig(<<IdStr("a")>>, TOGGLE)}

InitAttach == InitWith(NoStored, {TRUE}, {"ok"}, MaxOps)

LogCall(w) == hist' = Append(hist, BadSig(w))

NextAttach ==
    \/ \E c \in AttachConfigs : ~config.set /\ setConfig(c) /\ UNCHANGED hist
    \/ connectedCallback /\ LogCall("attach")
    \/ disconnectedCallback /\ LogCall("detach")
    \/ \E e \in AttachSignals : Dispatch(e) /\ LogSignal(e)
    \/ _processQueuedLovelaceEvent /\ LogFrame
    \/ PerformUpdate /\ UNCHANGED hist
    \/ CreateStart /\ UNCHANGED hist
    \/ HelpersLoaded /\ UNCHANGED hist
    \/ CreateMake /\ UNCHANGED hist
    \/ CreateAssign /\ UNCHANGED hist
    \/ CreateFinal /\ UNCHANGED hist

SpecAttach == InitAttach /\ [][NextAttach]_vars

\* The reconfiguration specification: the configuration is replaced at any
\* moment, by one with or without persist_state, over a storage that holds
\* any entry for the id.
ReconfConfigs == {Cfg("a", d, X, p, FALSE) : d \in {"show", "hide"},
                                            p \in BOOLEAN}
ReconfSignals == {Sig(<<IdStr("a")>>, TOGGLE)}

InitReconf == InitWith(StoredA, {TRUE}, {"ok"}, MaxOps)

NextReconf ==
    \/ \E c \in ReconfConfigs : setConfig(c) /\ UNCHANGED hist
    \/ connectedCallback /\ UNCHANGED hist
    \/ \E e \in ReconfSignals : Dispatch(e) /\ UNCHANGED hist
    \/ _processQueuedLovelaceEvent /\ UNCHANGED hist
    \/ PerformUpdate /\ UNCHANGED hist
    \/ CreateStart /\ UNCHANGED hist
    \/ HelpersLoaded /\ UNCHANGED hist
    \/ CreateMake /\ UNCHANGED hist
    \/ CreateAssign /\ UNCHANGED hist
    \/ CreateFinal /\ UNCHANGED hist
    \/ Restore /\ UNCHANGED hist
    \/ Write /\ UNCHANGED hist

SpecReconf == InitReconf /\ [][NextReconf]_vars

\* The malformed-payload specification: one configuration, and payloads of
\* every malformed shape around a well-formed targeted one, with a log of
\* the signals received and of the frame boundaries.
MalformedSignals ==
    {BadSig("nodetail"), BadSig("nokey"), BadSig("noids"),
     BadSig("noaction"), BadSig("notarray"), Sig(<<IdStr("a")>>, SHOW)}

NextMalformed ==
    \/ \E c \in AttachConfigs : ~config.set /\ setConfig(c) /\ UNCHANGED hist
    \/ connectedCallback /\ UNCHANGED hist
    \/ \E e \in MalformedSignals : Dispatch(e) /\ LogSignal(e)
    \/ _processQueuedLovelaceEvent /\ LogFrame
    \/ PerformUpdate /\ UNCHANGED hist
    \/ CreateStart /\ UNCHANGED hist
    \/ HelpersLoaded /\ UNCHANGED hist
    \/ CreateMake /\ UNCHANGED hist
    \/ CreateAssign /\ UNCHANGED hist
    \/ CreateFinal /\ UNCHANGED hist

SpecMalformed == InitAttach /\ [][NextMalformed]_vars

\* The attachment specification under the event loop's scheduling: the
\* microtask queue is drained, and a requested frame callback is run.
DrainMicrotask ==
    /\ \/ PerformUpdate \/ CreateStart \/ CreateMake \/ CreateAssign
       \/ CreateFinal
    /\ UNCHANGED hist

SpecAttachLive ==
    /\ InitAttach /\ [][NextAttach]_vars
    /\ WF_vars(DrainMicrotask)
    /\ WF_vars(_processQueuedLovelaceEvent /\ LogFrame)

\* The rebuild specification: the current card asks to be rebuilt at any
\* moment, between configure calls with two widget specs.
RebuildConfigs == {Cfg("a", "show", sp, FALSE, FALSE) :
                      sp \in {X, CardSpec("y", "", FALSE)}}

NextRebuild ==
    \/ \E c \in RebuildConfigs : setConfig(c) /\ UNCHANGED hist
    \/ connectedCallback /\ UNCHANGED hist
    \/ card # 0 /\ Rebuild(card) /\ UNCHANGED hist
    \/ PerformUpdate /\ UNCHANGED hist
    \/ CreateStart /\ UNCHANGED hist
    \/ HelpersLoaded /\ UNCHANGED hist
    \/ CreateMake /\ UNCHANGED hist
    \/ CreateAssign /\ UNCHANGED hist
    \/ CreateFinal /\ UNCHANGED hist
    \/ RebuildStart /\ UNCHANGED hist
    \/ RebuildMake /\ UNCHANGED hist
    \/ RebuildAssign /\ UNCHANGED hist

SpecRebuild == InitCache /\ [][NextRebuild]_vars

\* The session-handle specification: the host assigns handles (0: a falsy
\* one) in any order around configure calls and widget creation, with a log
\* of the handles assigned.
HassConfigs == {Cfg("a", "hide", sp, FALSE, FALSE) :
                   sp \in {X, CardSpec("y", "", FALSE)}}
Handles == {0, 1, 2}

LogHass(h) == hist' = IF h = 0 THEN hist ELSE Append(hist, h)

NextHass ==
    \/ \E c \in HassConfigs : setConfig(c) /\ UNCHANGED hist
    \/ \E h \in Handles : setHass(h) /\ LogHass(h)
    \/ connectedCallback /\ UNCHANGED hist
    \/ PerformUpdate /\ UNCHANGED hist
    \/ CreateStart /\ UNCHANGED hist
    \/ HelpersLoaded /\ UNCHANGED hist
    \/ CreateMake /\ UNCHANGED hist
    \/ CreateAssign /\ UNCHANGED hist
    \/ CreateFinal /\ UNCHANGED hist

SpecHass == InitAttach /\ [][NextHass]_vars

\* The concurrent-creation specification: configure calls and rebuild
\* requests of any created card, current or not, at any moment.
NextRebuildAny ==
    \/ \E c \in RebuildConfigs : setConfig(c) /\ UNCHANGED hist
    \/ connectedCallback /\ UNCHANGED hist
    \/ \E i \in 1..Len(insts) : Rebuild(i) /\ UNCHANGED hist
    \/ PerformUpdate /\ UNCHANGED hist
    \/ CreateStart /\ UNCHANGED hist
    \/ HelpersLoaded /\ UNCHANGED hist
    \/ CreateMake /\ UNCHANGED hist
    \/ CreateAssign /\ UNCHANGED hist
    \/ CreateFinal /\ UNCHANGED hist
    \/ RebuildStart /\ UNCHANGED hist
    \/ RebuildMake /\ UNCHANGED hist
    \/ RebuildAssign /\ UNCHANGED hist

SpecRebuildAny == InitCache /\ [][NextRebuildAny]_vars

----------------------------------------------------------------------------
(* C1 *)

\* the word a signal carries for id: its action, or under "set" the value
\* of its mapping from id
WordFor(e, id) ==
    IF e.action = "set"
    THEN LET i == CHOOSE i \in 1..Len(e.ids) :
                      e.ids[i].t = "map" /\ e.ids[i].k = id
         IN  e.ids[i].v
    ELSE e.action

StepWord(w, b) ==
    IF w = SHOW THEN TRUE ELSE IF w = HIDE_ THEN FALSE ELSE ~b

\* the left fold over the log: at each frame boundary (NoSig) the last
\* signal received since the previous boundary, if any, takes effect
RECURSIVE FoldHist(_, _, _, _)
FoldHist(h, id, cur, buf) ==
    IF h = <<>> THEN cur
    ELSE IF Head(h) = NoSig
    THEN FoldHist(Tail(h), id,
                  IF buf = NoSig THEN cur ELSE StepWord(WordFor(buf, id), cur),
                  NoSig)
    ELSE FoldHist(Tail(h), id, cur, Head(h))

\* C1: with persistence disabled and one configuration, once no delivery is
\* scheduled, show is the left fold of show -> true, hide -> false,
\* toggle -> negation, from (default = "show"), over the last signal
\* received before each frame boundary.
C1_FoldOfLastPerFrame ==
    (config.set /\ ~config.persist_state /\ ~pendingEvent /\ raf = 0)
        => show = FoldHist(hist, config.id, config.default = "show", NoSig)

\* two different signals in one frame, then a second frame, all delivered
C1_Witness ==
    /\ config.set /\ ~pendingEvent /\ raf = 0
    /\ Len(hist) >= 5
    /\ \E i \in 1..(Len(hist) - 1) :
          /\ hist[i] # NoSig /\ hist[i + 1] # NoSig
          /\ StepWord(WordFor(hist[i], "a"), config.default = "show")
               # StepWord(WordFor(hist[i + 1], "a"), config.default = "show")
    /\ Cardinality({i \in 1..Len(hist) : hist[i] = NoSig}) >= 2

----------------------------------------------------------------------------
(* C2 *)

\* e does not target the instance configured by cfg
NotTargeting(e, cfg) ==
    \/ ~cfg.set
    \/ /\ e.action # "set"
       /\ \A i \in 1..Len(e.ids) : e.ids[i] # IdStr(cfg.id)
    \/ /\ e.action = "set"
       /\ \A i \in 1..Len(e.ids) :
             ~(e.ids[i].t = "map" /\ e.ids[i].k = cfg.id)

\* C2: the delivery of a well-formed signal that does not target this
\* instance leaves show unchanged, whatever the action and the prior state.
C2_UntargetedKeepsShow ==
    [][(last'.op = "frame" /\ last'.sig.shape = "ok"
        /\ NotTargeting(last'.sig, config)) => show' = show]_vars

\* a toggle for another id was delivered to a configured instance
C2_Witness ==
    /\ last.op = "frame" /\ last.recon /\ config.set
    /\ last.sig = Sig(<<IdStr("b")>>, TOGGLE)

----------------------------------------------------------------------------
(* C3 *)

\* three host calls were made, the first of them setConfig, the configuration
\* has default "hide" and no persistence, and show is true: the calls were
\* configure, attach and one signal, which was delivered and set show
C3_ExampleRun ==
    /\ firstCall = "setConfig"
    /\ budget = MaxOps - 3
    /\ config.set /\ config.default = "hide" /\ ~config.persist_state
    /\ show
    /\ \A i \in 1..Len(insts) : insts[i].kind # "hui-error-card"

----------------------------------------------------------------------------
(* C6 *)

EffectiveFormula ==
    \/ preview /\ ~(config.set /\ config.hide_in_preview)
    \/ show
    \/ card # 0 /\ insts[card].kind = "hui-error-card"

\* C6: after every reconciliation visible equals (preview and not
\* hide_in_preview) or show or (the current card is an error card).
C6_VisibleIsFormula == last.recon => visible = EffectiveFormula

\* a hide signal was delivered while the current card is an error card
C6_Witness ==
    /\ last.op = "frame" /\ last.recon
    /\ last.sig = Sig(<<IdStr("a")>>, HIDE_)
    /\ ~show /\ ~preview /\ visible
    /\ card # 0 /\ insts[card].kind = "hui-error-card"

----------------------------------------------------------------------------
(* C8 *)

\* C8: when the visibility formula is false, getCardSize answers 0, whatever
\* the wrapped card's own getCardSize does and whether or not a card exists.
C8_HiddenSizeZero ==
    (last.op = "getCardSize" /\ ~EffectiveFormula) => last.res = 0

\* the size was asked of a hidden wrapper before its card exists
C8_Witness ==
    /\ last.op = "getCardSize" /\ ~EffectiveFormula /\ card = 0
    /\ config.set /\ last.res = 0

----------------------------------------------------------------------------
(* C4 *)

\* nothing is scheduled: no microtask, no continuation, no frame callback
Quiescent == mq = <<>> /\ waiting = <<>> /\ raf = 0

\* C4 as stated: with persist_state set (and a storage that accepts
\* writes), once a delivered signal has changed show and every deferred step
\* has run, the stored entry is the text of show, whatever preview,
\* hide_in_preview and the card are.
C4_StoredAfterShowChange ==
    (config.set /\ config.persist_state /\ storageOK /\ Quiescent
     /\ sigFx # "none")
        => storage[config.id] = BoolStr(show)

\* C4 amended: with persist_state set (and a storage that accepts writes),
\* once a delivered signal has changed show and, with it, visible, and every
\* deferred step has run, the stored entry is the text of show.
C4_StoredAfterVisibleChange ==
    (config.set /\ config.persist_state /\ storageOK /\ Quiescent
     /\ sigFx = "both")
        => storage[config.id] = BoolStr(show)

\* a hide signal was delivered and written over a stored "true"
C4_Witness ==
    /\ config.set /\ config.persist_state /\ storageOK /\ Quiescent
    /\ sigFx = "both" /\ last.op = "write" /\ last.res = 1
    /\ ~show /\ storage["a"] = "false" /\ config.default = "show"

----------------------------------------------------------------------------
(* C5 *)

RestorePending == \E i \in 1..Len(mq) : mq[i].t = "restore"

\* C5: with persist_state set, once the restoration step has run and as long
\* as no delivered signal has changed show, show is the stored value when
\* the entry is "true" or "false", whatever the default; it is the default
\* when there is no entry or the storage cannot be read.
C5_RestoredOverridesDefault ==
    (config.set /\ config.persist_state /\ ~RestorePending /\ sigFx = "none")
        => show = IF storageOK /\ storage[config.id] # "none"
                  THEN storage[config.id] = "true"
                  ELSE config.default = "show"

\* the stored "true" has just overridden the default "hide"
C5_Witness ==
    /\ config.set /\ config.default = "hide" /\ last.op = "restore"
    /\ last.res = 1 /\ storage["a"] = "true" /\ show /\ sigFx = "none"

----------------------------------------------------------------------------
(* C7 *)

\* C7 as stated: right after setConfig returns with default "show", the
\* visible that render and the hidden accessor read is true.
C7_VisibleRightAfterConfigure ==
    (last.op = "setConfig" /\ last.res = 0 /\ config.default = "show")
        => visible

----------------------------------------------------------------------------
(* C10 *)

\* C10 as stated: a setConfig that throws leaves config, show, visible, card
\* and the scheduled steps as they were.
C10_FailedConfigureKeepsState ==
    [][(last'.op = "setConfig" /\ last'.res = -1)
        => /\ config' = config /\ show' = show /\ visible' = visible
           /\ card' = card /\ mq' = mq /\ waiting' = waiting]_vars

----------------------------------------------------------------------------
(* C9 *)

\* what JSON.stringify gives for a spec without circular reference: the
\* type and the optional field when it has a value
Serial(sp) == <<sp.type, IF sp.opt = "1" THEN "1" ELSE "">>

Entry(sp) == cardCache[_cardConfigKey(sp)]

\* C9: no two elements were created for specs of one serialization; specs
\* that serialize differently have different cache entries; and once the
\* deferred creation has run, the current card is the one element created
\* for the serialization of the configured spec.
C9_CacheBySerialization ==
    /\ \A i, j \in 1..Len(insts) :
          (i # j /\ ~insts[i].spec.circ /\ ~insts[j].spec.circ)
              => Serial(insts[i].spec) # Serial(insts[j].spec)
    /\ \A s1, s2 \in CacheSpecs :
          (~s1.circ /\ ~s2.circ /\ Serial(s1) # Serial(s2)
           /\ Entry(s1) # 0 /\ Entry(s2) # 0) => Entry(s1) # Entry(s2)
    /\ (Quiescent /\ config.set /\ ~config.card.circ)
          => /\ card # 0 /\ card = Entry(config.card)
             /\ ~insts[card].spec.circ
             /\ Serial(insts[card].spec) = Serial(config.card)

\* a third configure call made the first element current again, with a
\* spec that differs from the first one and serializes like it
C9_Witness ==
    /\ Quiescent /\ Len(insts) = 2 /\ card = 1
    /\ insts[1].spec = X /\ config.card = CardSpec("x", "undef", FALSE)
    /\ insts[2].spec = CardSpec("x", "1", FALSE)

----------------------------------------------------------------------------
(* C11 *)

\* C11: the handler has one entry in the listener list after an attach and
\* none after a detach, however many attach and detach calls came before; a
\* broadcast signal is handled once per entry, so at most once; and a signal
\* broadcast while detached changes neither the buffer, nor the scheduled
\* flag, nor the frame requests.
C11_AttachDetachIdempotent ==
    /\ [][last'.op = "connect" => subscribed' = 1]_vars
    /\ [][last'.op = "disconnect" => subscribed' = 0]_vars
    /\ [][last'.op = "signal" =>
            /\ last'.res = subscribed /\ last'.res <= 1
            /\ (subscribed = 0 =>
                  UNCHANGED <<lastEvent, pendingEvent, raf>>)]_vars

\* two attach calls in a row, then a signal, which was handled once
C11_Witness ==
    /\ Len(hist) >= 3
    /\ \E i \in 1..(Len(hist) - 2) :
          /\ hist[i] = BadSig("attach") /\ hist[i + 1] = BadSig("attach")
          /\ hist[i + 2].shape = "ok" /\ i + 2 = Len(hist)
    /\ last.op = "signal" /\ last.res = 1 /\ lastEvent = last.sig

----------------------------------------------------------------------------
(* C12 *)

\* C12 as stated: when the current configuration has persist_state unset,
\* once every deferred step of this and of every earlier setConfig call has
\* run and as long as no delivered signal has changed show, show is
\* (default = "show") of the current configuration.
C12_ReplacedConfigResetsShow ==
    (config.set /\ ~config.persist_state /\ Quiescent /\ sigFx = "none")
        => show = (config.default = "show")

----------------------------------------------------------------------------
(* C13 *)

\* C13: the delivery of a malformed payload lets no error out, leaves show
\* and visible unchanged, clears the scheduled flag and empties the buffer
\* with no frame request left; every signal received while attached is
\* buffered with one delivery scheduled; and the delivery of a well-formed
\* targeted signal applies its word to show.
C13_MalformedDiscarded ==
    /\ [][(last'.op = "frame" /\ last'.sig.shape # "ok") =>
            /\ last'.res = 0 /\ show' = show /\ visible' = visible
            /\ ~pendingEvent' /\ lastEvent' = NoSig /\ raf' = 0]_vars
    /\ [][(last'.op = "signal" /\ subscribed > 0) =>
            /\ pendingEvent' /\ lastEvent' = last'.sig /\ raf' = 1]_vars
    /\ [][(last'.op = "frame" /\ last'.sig.shape = "ok"
           /\ ~NotTargeting(last'.sig, config)) =>
            /\ last'.res = 0
            /\ show' = StepWord(WordFor(last'.sig, config.id), show)]_vars

\* a payload without detail was delivered, then a targeted show was
\* received, delivered in the next frame and applied
C13_Witness ==
    /\ Len(hist) = 4
    /\ hist[1] = BadSig("nodetail") /\ hist[2] = NoSig
    /\ hist[3] = Sig(<<IdStr("a")>>, SHOW) /\ hist[4] = NoSig
    /\ last.op = "frame" /\ last.sig = hist[3]
    /\ config.set /\ config.default = "hide" /\ show /\ visible

----------------------------------------------------------------------------
(* C14 *)

\* C14: at most one frame delivery is scheduled, and the scheduled flag is
\* set exactly when one is; a signal received while a delivery is scheduled
\* takes the place of the buffered one and requests no second frame.
C14_OneScheduledDelivery ==
    /\ [](raf <= 1 /\ (pendingEvent <=> raf = 1))
    /\ [][(last'.op = "signal" /\ subscribed > 0 /\ pendingEvent) =>
            /\ lastEvent' = last'.sig /\ raf' = raf /\ pendingEvent']_vars

\* a toggle, then a show received before the frame: the show is buffered and
\* one delivery is scheduled
C14_Witness ==
    /\ Len(hist) >= 2
    /\ hist[Len(hist) - 1] = Sig(<<IdStr("a")>>, TOGGLE)
    /\ hist[Len(hist)] = Sig(<<IdStr("a")>>, SHOW)
    /\ last.op = "signal" /\ lastEvent = Sig(<<IdStr("a")>>, SHOW)
    /\ pendingEvent /\ raf = 1

----------------------------------------------------------------------------
(* C15 *)

\* the signal the log says is undelivered: the last signal received since
\* the last frame boundary, NoSig if there is none
RECURSIVE Undelivered(_)
Undelivered(h) ==
    IF h = <<>> THEN NoSig
    ELSE LET e == h[Len(h)]
         IN  IF e.shape \in {"attach", "detach"}
             THEN Undelivered(SubSeq(h, 1, Len(h) - 1))
             ELSE e

\* C15: the buffer holds the last signal received while attached since the
\* last frame boundary (an earlier one of the burst was overwritten); it
\* holds a signal only while one delivery is scheduled; each frame callback
\* drains the buffer and hands the buffered signal to one decode; and a
\* buffered signal is eventually delivered.
C15_BufferedIsDelivered ==
    /\ [](lastEvent = Undelivered(hist))
    /\ [](lastEvent # NoSig => (pendingEvent /\ raf = 1))
    /\ [][last'.op = "frame" =>
            /\ lastEvent # NoSig /\ last'.sig = lastEvent
            /\ lastEvent' = NoSig /\ raf' = 0]_vars
    /\ (lastEvent # NoSig) ~> (last.op = "frame" /\ lastEvent = NoSig)

\* a burst of two different signals, then the frame that delivered the
\* second one
C15_Witness ==
    /\ Len(hist) >= 3
    /\ hist[Len(hist) - 2] = Sig(<<IdStr("a")>>, SHOW)
    /\ hist[Len(hist) - 1] = Sig(<<IdStr("a")>>, TOGGLE)
    /\ hist[Len(hist)] = NoSig
    /\ last.op = "frame" /\ last.sig = Sig(<<IdStr("a")>>, TOGGLE)
    /\ lastEvent = NoSig /\ ~pendingEvent /\ raf = 0

----------------------------------------------------------------------------
(* C16 *)

\* C16 as stated: when the rebuild asked for by the current card has run,
\* the cache entry of its spec and this.card are one element, another one
\* than the element that asked, and a reconciliation was run.
C16_RebuildMakesFreshElement ==
    last.op = "rebuilt" =>
        /\ card # last.res
        /\ cardCache[_cardConfigKey(insts[last.res].spec)] = card
        /\ last.recon

----------------------------------------------------------------------------
(* C17 *)

\* C17 as stated: the visibility render uses (last.res of an update step)
\* is the visibility formula on the state render runs in, and getCardSize
\* answers 0 when that formula is false.
C17_ReadsAreFresh ==
    /\ [][last'.op = "update" =>
            ((last'.res = 1) <=> EffectiveFormula)]_vars
    /\ [][last'.op = "getCardSize" =>
            (~EffectiveFormula => last'.res = 0)]_vars

----------------------------------------------------------------------------
(* C18 *)

CountTasks(q, t) == Cardinality({i \in 1..Len(q) : q[i].t = t})

\* C18 as stated: the restoration step of a setConfig call runs once (it
\* leaves the queue when it runs), and it schedules no write to the storage.
C18_RestoreSchedulesNoWrite ==
    [][last'.op = "restore" =>
         /\ CountTasks(mq', "restore") = CountTasks(mq, "restore") - 1
         /\ CountTasks(mq', "write") = CountTasks(mq, "write")]_vars

----------------------------------------------------------------------------
(* C19 *)

\* C19 as stated: in a quiescent state with a current card, once the host
\* has assigned a handle, the card's handle is the last one assigned.
C19_CardHasLatestHandle ==
    (Quiescent /\ card # 0 /\ hist # <<>>)
        => insts[card].hass = hist[Len(hist)]

\* the same, for handles assigned after the first successful setConfig
C19_AfterConfigure ==
    (Quiescent /\ card # 0 /\ hass # 0) => insts[card].hass = hass

----------------------------------------------------------------------------
(* C20 *)

\* C20 as stated: once every deferred step has run, this.card is the
\* element cached for the widget spec of the current configuration,
\* whatever creations and rebuilds were under way.
C20_CurrentIsConfiguredCard ==
    (Quiescent /\ config.set)
        => (card # 0 /\ card = cardCache[_cardConfigKey(config.card)])
====
